---- MODULE Spec2Model ----
(***************************************************************************)
(* A model of cryptosporidium_host_adaptation/core.py: the VCF loader      *)
(* (read_vcf), the multiallelic expander (find_index,                      *)
(* expand_multiallelic_variants), the frequency calculator                 *)
(* (compute_frequencies) and the annotation extractor (extract_first_ann,  *)
(* add_ann_info_to_df).                                                    *)
(*                                                                         *)
(* Python strings are sequences of one-character strings, so that split,   *)
(* find, replace, startswith and int() do the work the code makes them do. *)
(* Python list positions are 0-based in the state (ro_index, ...), as in   *)
(* the source; the element at Python position i of a list l is l[i + 1].   *)
(* A value that may be None is boxed: None is the empty tuple and any      *)
(* other value x is <<x>>.  A raised exception is recorded by its class    *)
(* name in the variable error, "NoError" while none has been raised.       *)
(***************************************************************************)
EXTENDS Integers, Sequences, FiniteSets, TLC

VARIABLES
    pc,             \* position of the running call
    error,          \* "NoError", or the class name of the exception raised
    df_vcf,         \* expand_multiallelic_variants: the input table
    ro_index,       \* expand_multiallelic_variants: locals
    ao_index,
    dp_index,
    row_i,          \* number of input rows the for loop has consumed
    expanded_rows,
    expanded_df,    \* the returned table (boxed), None before the return
    df_counts,      \* compute_frequencies: the input table
    sample_names,   \* compute_frequencies: locals
    sample_i,       \* number of samples the for loop has consumed
    df_af,          \* compute_frequencies: the table being built and returned
    info_field,     \* extract_first_ann: the argument
    ann_result,     \* extract_first_ann: the returned value (boxed)
    df,            \* add_ann_info_to_df: the table, changed in place
    df_in,          \* add_ann_info_to_df: the table as it was when passed
    ann_i,          \* number of rows the iterrows loop has consumed
    vcf_file,       \* read_vcf: the lines of the file
    line_i,         \* number of lines the header scan has consumed
    header,         \* read_vcf: the local header (boxed), None while unbound
    read_df,        \* read_vcf: the returned table (boxed)
    files,          \* filter_variants: the variant lines of each file, None if absent
    calls,          \* the shell commands subprocess.run has started, in order
    count_vars      \* filter_variants: the *_COUNT locals (boxed), None while unbound

expandVars == <<df_vcf, ro_index, ao_index, dp_index, row_i, expanded_rows, expanded_df>>
freqVars == <<df_counts, sample_names, sample_i, df_af>>
annVars == <<info_field, ann_result>>
addVars == <<df, df_in, ann_i>>
readVars == <<vcf_file, line_i, header, read_df>>

filterVars == <<files, calls, count_vars>>

vars == <<pc, error, expandVars, freqVars, annVars, addVars, readVars, filterVars>>

None == <<>>
Some(x) == <<x>>
Unbox(o) == o[1]
NoError == "NoError"

\* the exceptions the modelled code raises
FormatError == "ValueError: RO, AO, or DP field not found in FORMAT column."
IntError == "ValueError: invalid literal for int()"
IndexError == "IndexError"

-----------------------------------------------------------------------------
(* Bounds of the model.                                                    *)

MaxRows == 2        \* rows of an input VCF table
MaxAlts == 2        \* comma-separated alternates (types, AO values) in a row
MaxSamples == 2     \* sample columns of a VCF table

\* the state of the functions a specification does not run
IdleExpand ==
    /\ df_vcf = None
    /\ ro_index = None
    /\ ao_index = None
    /\ dp_index = None
    /\ row_i = 0
    /\ expanded_rows = <<>>
    /\ expanded_df = None

IdleFreq == df_counts = None /\ sample_names = <<>> /\ sample_i = 0 /\ df_af = None

IdleAnn == info_field = <<>> /\ ann_result = None

IdleAdd == df = None /\ df_in = None /\ ann_i = 0

IdleRead == vcf_file = <<>> /\ line_i = 0 /\ header = None /\ read_df = None

IdleFilter == files = <<>> /\ calls = <<>> /\ count_vars = <<>>

-----------------------------------------------------------------------------
(* Python built-ins on strings and lists.                                  *)

Min(a, b) == IF a < b THEN a ELSE b

\* sub occurs in s at the 0-based offset p
OccursAt(s, sub, p) ==
    /\ p >= 0
    /\ p + Len(sub) <= Len(s)
    /\ \A k \in 1..Len(sub) : s[p + k] = sub[k]

\* str.find: the lowest offset of sub in s, -1 when there is none
find(s, sub) ==
    LET hits == {p \in 0..Len(s) : OccursAt(s, sub, p)}
    IN  IF hits = {} THEN -1
        ELSE CHOOSE p \in hits : \A q \in hits : p <= q

\* the operator `in` on strings
contains(s, sub) == find(s, sub) # -1

\* str.startswith
startswith(s, prefix) == OccursAt(s, prefix, 0)

\* the slice s[a:]
SliceFrom(s, a) == SubSeq(s, a + 1, Len(s))

\* str.split(sep) with a non-empty separator
RECURSIVE split(_, _)
split(s, sep) ==
    LET p == find(s, sep)
    IN  IF p = -1 THEN <<s>>
        ELSE <<SubSeq(s, 1, p)>> \o split(SliceFrom(s, p + Len(sep)), sep)

\* str.replace(old, new): every non-overlapping occurrence, left to right
RECURSIVE replace(_, _, _)
replace(s, old, new) ==
    LET p == find(s, old)
    IN  IF p = -1 THEN s
        ELSE SubSeq(s, 1, p) \o new \o replace(SliceFrom(s, p + Len(old)), old, new)

\* list.index(x) for an x that is in the list
ListIndex(l, x) == (CHOOSE k \in 1..Len(l) : l[k] = x /\ \A j \in 1..(k - 1) : l[j] # x) - 1

InList(l, x) == \E k \in 1..Len(l) : l[k] = x

Digits == <<"0", "1", "2", "3", "4", "5", "6", "7", "8", "9">>

IsDigit(c) == \E d \in 1..10 : Digits[d] = c

DigitVal(c) == (CHOOSE d \in 1..10 : Digits[d] = c) - 1

\* int(s) raises ValueError unless s is a decimal numeral
IsNumeral(s) == Len(s) > 0 /\ \A k \in 1..Len(s) : IsDigit(s[k])

RECURSIVE int(_)
int(s) ==
    IF Len(s) = 0 THEN 0
    ELSE 10 * int(SubSeq(s, 1, Len(s) - 1)) + DigitVal(s[Len(s)])

\* str(n) for n >= 0
RECURSIVE str(_)
str(n) == IF n < 10 THEN <<Digits[n + 1]>> ELSE str(n \div 10) \o <<Digits[(n % 10) + 1]>>

\* sep.join(l)
RECURSIVE join(_, _)
join(l, sep) ==
    IF Len(l) = 0 THEN <<>>
    ELSE IF Len(l) = 1 THEN l[1]
    ELSE l[1] \o sep \o join(Tail(l), sep)

\* A dict is the sequence of its items in insertion order.
DictHas(d, k) == \E j \in 1..Len(d) : d[j].k = k

DictGet(d, k) == d[CHOOSE j \in 1..Len(d) : d[j].k = k].v

DictSet(d, k, v) ==
    IF DictHas(d, k)
    THEN [j \in 1..Len(d) |-> IF d[j].k = k THEN [k |-> k, v |-> v] ELSE d[j]]
    ELSE Append(d, [k |-> k, v |-> v])

DictKeys(d) == [j \in 1..Len(d) |-> d[j].k]

-----------------------------------------------------------------------------
(* String literals of the source.                                          *)

sRO == <<"R", "O">>
sAO == <<"A", "O">>
sDP == <<"D", "P">>
sGT == <<"G", "T">>
sComma == <<",">>
sColon == <<":">>
sSemi == <<";">>
sDot == <<".">>
sTYPE == <<"T", "Y", "P", "E", "=">>
sRO_ == <<"R", "O", "_">>
sAO_ == <<"A", "O", "_">>
sDP_ == <<"D", "P", "_">>
sAF_ == <<"A", "F", "_">>
sCHROM == <<"#", "C", "H", "R", "O", "M">>
sPOS == <<"P", "O", "S">>
sREF == <<"R", "E", "F">>
sALT == <<"A", "L", "T">>
sINFO_TYPE == <<"I", "N", "F", "O", "_", "T", "Y", "P", "E">>

-----------------------------------------------------------------------------
(* find_index                                                              *)

\* a find_index that answers position 0 for a field the layout lacks
find_index_else0(format_value, field) ==
    LET item_list == split(format_value, sColon)
    IN  IF InList(item_list, field) THEN Some(ListIndex(item_list, field)) ELSE Some(0)

find_index(format_value, field) ==
    LET item_list == split(format_value, sColon)
    IN  IF InList(item_list, field) THEN Some(ListIndex(item_list, field)) ELSE None

-----------------------------------------------------------------------------
(* expand_multiallelic_variants: a table is [columns, rows]; a row of the  *)
(* input is a record of the fixed columns the code reads, and samples, the *)
(* values of the columns after the ninth, in column order.                 *)

\* df_vcf.columns[9:]
SampleNamesOf(tbl) == SubSeq(tbl.columns, 10, Len(tbl.columns))

\* int(tok) if tok != '.' else 0, at position idx of sample_values
CountAt(sample_values, idx) ==
    IF idx >= Len(sample_values) THEN [err |-> IndexError, v |-> 0]
    ELSE LET tok == sample_values[idx + 1]
         IN  IF tok = sDot THEN [err |-> NoError, v |-> 0]
             ELSE IF IsNumeral(tok) THEN [err |-> NoError, v |-> int(tok)]
             ELSE [err |-> IntError, v |-> 0]

\* int(ao_values[i]) if i < len(ao_values) and ao_values[i] != '.' else 0
AltCountAt(sample_values, idx, i) ==
    IF idx >= Len(sample_values) THEN [err |-> IndexError, v |-> 0]
    ELSE LET ao_values == split(sample_values[idx + 1], sComma)
         IN  IF i < Len(ao_values) /\ ao_values[i + 1] # sDot
             THEN IF IsNumeral(ao_values[i + 1])
                  THEN [err |-> NoError, v |-> int(ao_values[i + 1])]
                  ELSE [err |-> IntError, v |-> 0]
             ELSE [err |-> NoError, v |-> 0]

\* the body of `for sample in sample_names` for the samples from k on
RECURSIVE SampleLoop(_, _, _, _, _, _, _, _)
SampleLoop(new_row, names, row, k, i, ro, ao, dp) ==
    IF k > Len(names) THEN [err |-> NoError, row |-> new_row]
    ELSE LET sample == names[k]
             sample_values == split(row.samples[k], sColon)
             r == CountAt(sample_values, ro)
             d == CountAt(sample_values, dp)
             a == AltCountAt(sample_values, ao, i)
         IN  IF r.err # NoError THEN [err |-> r.err, row |-> new_row]
             ELSE IF d.err # NoError THEN [err |-> d.err, row |-> new_row]
             ELSE IF a.err # NoError THEN [err |-> a.err, row |-> new_row]
             ELSE SampleLoop(
                      DictSet(DictSet(DictSet(new_row, sRO_ \o sample, r.v),
                                      sDP_ \o sample, d.v),
                              sAO_ \o sample, a.v),
                      names, row, k + 1, i, ro, ao, dp)

\* the body of `for i, (alt, inty) in enumerate(zip(...))` from i on
RECURSIVE AltLoop(_, _, _, _, _, _, _, _)
AltLoop(names, row, alt_alleles, info_type, i, ro, ao, dp) ==
    IF i >= Min(Len(alt_alleles), Len(info_type)) THEN [err |-> NoError, rows |-> <<>>]
    ELSE LET new_row == << [k |-> sCHROM, v |-> row.CHROM],
                           [k |-> sPOS, v |-> row.POS],
                           [k |-> sREF, v |-> row.REF],
                           [k |-> sALT, v |-> alt_alleles[i + 1]],
                           [k |-> sINFO_TYPE, v |-> info_type[i + 1]] >>
             filled == SampleLoop(new_row, names, row, 1, i, ro, ao, dp)
             rest == AltLoop(names, row, alt_alleles, info_type, i + 1, ro, ao, dp)
         IN  IF filled.err # NoError THEN [err |-> filled.err, rows |-> <<>>]
             ELSE IF rest.err # NoError THEN [err |-> rest.err, rows |-> <<>>]
             ELSE [err |-> NoError, rows |-> <<filled.row>> \o rest.rows]

\* one iteration of `for _, row in df_vcf.iterrows()`
ExpandOneRow(names, row, ro, ao, dp) ==
    LET alt_alleles == split(row.ALT, sComma)
        after == split(row.INFO, sTYPE)
    IN  IF Len(after) < 2 THEN [err |-> IndexError, rows |-> <<>>]
        ELSE AltLoop(names, row, alt_alleles,
                     split(split(after[2], sSemi)[1], sComma), 0, ro, ao, dp)

\* pd.DataFrame(list of dicts with the same keys)
DataFrame(rows) ==
    [columns |-> IF Len(rows) = 0 THEN <<>> ELSE DictKeys(rows[1]), rows |-> rows]

Raise(e) == pc' = "raised" /\ error' = e

ExpandStart ==
    /\ pc = "expand"
    /\ UNCHANGED <<freqVars, annVars, addVars, readVars, filterVars>>
    /\ IF Len(df_vcf.rows) = 0
       THEN /\ Raise(IndexError)
            /\ UNCHANGED expandVars
       ELSE LET format_example == df_vcf.rows[1].FORMAT
                ro == find_index(format_example, sRO)
                ao == find_index(format_example, sAO)
                dp == find_index(format_example, sDP)
            IN  /\ ro_index' = ro
                /\ ao_index' = ao
                /\ dp_index' = dp
                /\ UNCHANGED <<df_vcf, row_i, expanded_rows, expanded_df>>
                /\ IF None \in {ro, ao, dp}
                   THEN Raise(FormatError)
                   ELSE pc' = "expand_loop" /\ UNCHANGED error

ExpandRow ==
    /\ pc = "expand_loop"
    /\ UNCHANGED <<freqVars, annVars, addVars, readVars, filterVars>>
    /\ row_i < Len(df_vcf.rows)
    /\ LET out == ExpandOneRow(SampleNamesOf(df_vcf), df_vcf.rows[row_i + 1],
                              Unbox(ro_index), Unbox(ao_index), Unbox(dp_index))
       IN  IF out.err # NoError
           THEN /\ Raise(out.err)
                /\ UNCHANGED expandVars
           ELSE /\ expanded_rows' = expanded_rows \o out.rows
                /\ row_i' = row_i + 1
                /\ UNCHANGED <<pc, error, df_vcf, ro_index, ao_index, dp_index, expanded_df>>

ExpandReturn ==
    /\ pc = "expand_loop"
    /\ UNCHANGED <<freqVars, annVars, addVars, readVars, filterVars>>
    /\ row_i = Len(df_vcf.rows)
    /\ expanded_df' = Some(DataFrame(expanded_rows))
    /\ pc' = "done"
    /\ UNCHANGED <<error, df_vcf, ro_index, ao_index, dp_index, row_i, expanded_rows>>

-----------------------------------------------------------------------------
(* The input tables of the expander.                                       *)

Alleles == <<<<"A">>, <<"T">>, <<"G">>, <<"C">>>>
Allele(i) == Alleles[((i - 1) % 4) + 1]

Types == <<<<"s", "n", "p">>, <<"i", "n", "s">>, <<"d", "e", "l">>, <<"m", "n", "p">>>>
TypeTok(i) == Types[((i - 1) % 4) + 1]

FixedColumns ==
    << sCHROM, sPOS, <<"I", "D">>, sREF, sALT, <<"Q", "U", "A", "L">>,
       <<"F", "I", "L", "T", "E", "R">>, <<"I", "N", "F", "O">>,
       <<"F", "O", "R", "M", "A", "T">> >>

SampleName(k) == <<"S">> \o str(k)

\* the value of one sample column: the fields of fmt, colon-joined
SampleValue(fmt, prof) ==
    join([j \in 1..Len(fmt) |->
             IF fmt[j] = sRO THEN prof.ro
             ELSE IF fmt[j] = sDP THEN prof.dp
             ELSE IF fmt[j] = sAO THEN join(prof.ao, sComma)
             ELSE <<"0", "/", "1">>], sColon)

\* the first sample's counts: complete, RO and DP missing, a short AO list,
\* or one missing AO element
Profiles(nAlt) ==
    LET full == [i \in 1..nAlt |-> str(IF i <= 3 THEN 4 - i ELSE i)]
    IN  {[ro |-> <<"5">>, dp |-> <<"1", "0">>, ao |-> full],
         [ro |-> sDot, dp |-> sDot, ao |-> full]}
        \cup {[ro |-> <<"5">>, dp |-> <<"1", "0">>, ao |-> SubSeq(full, 1, nAlt - 1)] :
                 x \in {y \in {nAlt} : y > 1}}
        \cup {[ro |-> <<"5">>, dp |-> <<"1", "0">>,
               ao |-> [i \in 1..nAlt |-> IF i = d THEN sDot ELSE full[i]]] : d \in 1..nAlt}

\* the counts of the samples after the first
OtherProfile(nAlt) ==
    [ro |-> <<"7">>, dp |-> <<"2", "0">>, ao |-> [i \in 1..nAlt |-> str(i + 5)]]

MkRow(r, nAlt, nType, fmt, prof, nS) ==
    [CHROM |-> <<"c", "1">>,
     POS |-> r,
     REF |-> Allele(r + 2),
     ALT |-> join([i \in 1..nAlt |-> Allele(i)], sComma),
     INFO |-> <<"N", "S", "=", "2", ";">> \o sTYPE
              \o join([i \in 1..nType |-> TypeTok(i)], sComma)
              \o <<";", "L", "E", "N", "=", "1">>,
     FORMAT |-> join(fmt, sColon),
     samples |-> [k \in 1..nS |->
                     SampleValue(fmt, IF k = 1 THEN prof ELSE OtherProfile(nAlt))]]

\* FORMAT layouts holding RO, AO and DP
CompleteFormats ==
    {<<sRO, sAO, sDP>>, <<sAO, sDP, sRO>>, <<sGT, sDP, sRO, sAO>>}

RowChoices ==
    {[nAlt |-> a, nType |-> t, fmt |-> f, prof |-> p] :
        a \in 1..MaxAlts, t \in 1..MaxAlts, f \in CompleteFormats, p \in UNION {Profiles(n) : n \in 1..MaxAlts}}

MkTable(choices, nS) ==
    [columns |-> FixedColumns \o [k \in 1..nS |-> SampleName(k)],
     rows |-> [r \in 1..Len(choices) |->
                  MkRow(r, choices[r].nAlt, choices[r].nType, choices[r].fmt,
                        choices[r].prof, nS)]]

SeqsUpTo(S, n) == UNION {[1..m -> S] : m \in 0..n}

ValidChoice(c) == Len(c.prof.ao) \in {c.nAlt, c.nAlt - 1} /\ Len(c.prof.ao) > 0

VcfTables ==
    {MkTable(cs, nS) : cs \in SeqsUpTo({c \in RowChoices : ValidChoice(c)}, MaxRows),
                       nS \in 1..MaxSamples}

InitExpand ==
    /\ IdleFreq /\ IdleAnn /\ IdleAdd /\ IdleRead /\ IdleFilter
    /\ pc = "expand"
    /\ error = NoError
    /\ df_vcf \in VcfTables
    /\ ro_index = None
    /\ ao_index = None
    /\ dp_index = None
    /\ row_i = 0
    /\ expanded_rows = <<>>
    /\ expanded_df = None

NextExpand == ExpandStart \/ ExpandRow \/ ExpandReturn

SpecExpand == InitExpand /\ [][NextExpand]_vars

\* Tables with one FORMAT string in every row, over every layout of distinct
\* fields among GT, RO, AO, DP: some hold the three counts, some lack one.
FormatFields == {sGT, sRO, sAO, sDP}

AllFormats ==
    {f \in UNION {[1..m -> FormatFields] : m \in 1..4} :
        \A a, b \in 1..Len(f) : a # b => f[a] # f[b]}

UniformTables ==
    {MkTable([r \in 1..Len(ns) |->
                 [nAlt |-> ns[r], nType |-> ns[r], fmt |-> f,
                  prof |-> [ro |-> <<"5">>, dp |-> <<"1", "0">>,
                            ao |-> [i \in 1..ns[r] |-> str(IF i <= 3 THEN 4 - i ELSE i)]]]],
             nS) :
        f \in AllFormats,
        ns \in UNION {[1..m -> 1..MaxAlts] : m \in 1..MaxRows},
        nS \in 1..MaxSamples}

InitUniform ==
    /\ IdleFreq /\ IdleAnn /\ IdleAdd /\ IdleRead /\ IdleFilter
    /\ pc = "expand"
    /\ error = NoError
    /\ df_vcf \in UniformTables
    /\ ro_index = None
    /\ ao_index = None
    /\ dp_index = None
    /\ row_i = 0
    /\ expanded_rows = <<>>
    /\ expanded_df = None

SpecUniform == InitUniform /\ [][NextExpand]_vars

-----------------------------------------------------------------------------
(* compute_frequencies.  A table is [columns, rows], a row being the dict  *)
(* of its cells, as pd.DataFrame builds it from expanded_rows.             *)

RECURSIVE GCD(_, _)
GCD(a, b) == IF b = 0 THEN a ELSE GCD(b, a % b)

\* the float a / b of two non-negative int64 cells: the exact quotient in
\* lowest terms, or inf (a > 0) or nan (a = 0) for b = 0; nothing is raised
Divide(a, b) ==
    IF b = 0 THEN [kind |-> IF a = 0 THEN "nan" ELSE "inf", n |-> 0, d |-> 0]
    ELSE [kind |-> "finite", n |-> a \div GCD(a, b), d |-> b \div GCD(a, b)]

\* [f(col) for col in columns if col.startswith(prefix)]
RECURSIVE StripAO(_)
StripAO(columns) ==
    IF Len(columns) = 0 THEN <<>>
    ELSE IF startswith(columns[1], sAO_)
         THEN <<replace(columns[1], sAO_, <<>>)>> \o StripAO(Tail(columns))
         ELSE StripAO(Tail(columns))

\* df[[c1, ...]].copy()
SelectColumns(tbl, cols) ==
    [columns |-> cols,
     rows |-> [r \in 1..Len(tbl.rows) |->
                  [j \in 1..Len(cols) |-> [k |-> cols[j], v |-> DictGet(tbl.rows[r], cols[j])]]]]

\* df[col] = values (one value per row)
SetColumn(tbl, col, values) ==
    [columns |-> IF InList(tbl.columns, col) THEN tbl.columns ELSE Append(tbl.columns, col),
     rows |-> [r \in 1..Len(tbl.rows) |-> DictSet(tbl.rows[r], col, values[r])]]

KeyError == "KeyError"

IdColumns == <<sCHROM, sPOS, sREF, sALT>>

FreqStart ==
    /\ pc = "freq"
    /\ UNCHANGED <<expandVars, annVars, addVars, readVars, filterVars>>
    /\ sample_names' = StripAO(Unbox(df_counts).columns)
    /\ UNCHANGED <<df_counts, sample_i>>
    /\ IF \A j \in 1..Len(IdColumns) : InList(Unbox(df_counts).columns, IdColumns[j])
       THEN /\ df_af' = Some(SelectColumns(Unbox(df_counts), IdColumns))
            /\ pc' = "freq_loop"
            /\ UNCHANGED error
       ELSE /\ Raise(KeyError)
            /\ UNCHANGED df_af

FreqSample ==
    /\ pc = "freq_loop"
    /\ sample_i < Len(sample_names)
    /\ UNCHANGED <<expandVars, annVars, addVars, readVars, filterVars>>
    /\ LET sample == sample_names[sample_i + 1]
           ao_col == sAO_ \o sample
           dp_col == sDP_ \o sample
           af_col == sAF_ \o sample
           counts == Unbox(df_counts)
       IN  IF InList(counts.columns, ao_col) /\ InList(counts.columns, dp_col)
           THEN /\ df_af' = Some(SetColumn(Unbox(df_af), af_col,
                                  [r \in 1..Len(counts.rows) |->
                                      Divide(DictGet(counts.rows[r], ao_col),
                                             DictGet(counts.rows[r], dp_col))]))
                /\ sample_i' = sample_i + 1
                /\ UNCHANGED <<pc, error, df_counts, sample_names>>
           ELSE /\ Raise(KeyError)
                /\ UNCHANGED freqVars

FreqReturn ==
    /\ pc = "freq_loop"
    /\ sample_i = Len(sample_names)
    /\ pc' = "done"
    /\ UNCHANGED <<error, expandVars, freqVars, annVars, addVars, readVars, filterVars>>

\* The input tables: what the expander returns for the samples named.
SampleNamePool ==
    {<<"S", "1">>, <<"1">>, <<"A", "O", "_", "1">>, <<"L", "A", "O", "_", "3">>}

CountPairs == <<[ao |-> 3, dp |-> 10], [ao |-> 2, dp |-> 0], [ao |-> 0, dp |-> 0], [ao |-> 5, dp |-> 5]>>

CountRow(r, names, c) ==
    LET base == << [k |-> sCHROM, v |-> <<"c", "1">>],
                   [k |-> sPOS, v |-> r],
                   [k |-> sREF, v |-> Allele(r + 2)],
                   [k |-> sALT, v |-> Allele(r)],
                   [k |-> sINFO_TYPE, v |-> TypeTok(1)] >>
        cell(s) == CountPairs[((c + s - 2) % Len(CountPairs)) + 1]
        F[s \in 0..Len(names)] ==
            IF s = 0 THEN base
            ELSE DictSet(DictSet(DictSet(F[s - 1], sRO_ \o names[s], 5),
                                 sDP_ \o names[s], cell(s).dp),
                         sAO_ \o names[s], cell(s).ao)
    IN  F[Len(names)]

CountTables ==
    {DataFrame([r \in 1..Len(cs) |-> CountRow(r, names, cs[r])]) :
        names \in {n \in UNION {[1..m -> SampleNamePool] : m \in 1..MaxSamples} :
                      \A a, b \in 1..Len(n) : a # b => n[a] # n[b]},
        cs \in UNION {[1..m -> 1..Len(CountPairs)] : m \in 1..MaxRows}}

InitFreq ==
    /\ pc = "freq"
    /\ error = NoError
    /\ IdleExpand /\ IdleAnn /\ IdleAdd /\ IdleRead /\ IdleFilter
    /\ df_counts \in {Some(t) : t \in CountTables}
    /\ sample_names = <<>>
    /\ sample_i = 0
    /\ df_af = None

NextFreq == FreqStart \/ FreqSample \/ FreqReturn

SpecFreq == InitFreq /\ [][NextFreq]_vars

-----------------------------------------------------------------------------
(* extract_first_ann                                                       *)

sANN == <<"A", "N", "N", "=">>
sPipe == <<"|">>

\* an extract_first_ann that asks for more than four sub-fields
extract_first_ann_gt4(info) ==
    IF ~contains(info, sANN) THEN None
    ELSE LET ann_start == find(info, sANN)
             after == SliceFrom(info, ann_start + 4)
             ann_content == IF contains(after, sSemi) THEN split(after, sSemi)[1] ELSE after
             annotations == split(ann_content, sComma)
             first_ann == annotations[1]
             ann_fields == split(first_ann, sPipe)
         IN  IF Len(ann_fields) > 4
             THEN Some([allele |-> ann_fields[1], type |-> ann_fields[2],
                        impact |-> ann_fields[3], gene_id |-> ann_fields[4]])
             ELSE None

extract_first_ann(info) ==
    IF ~contains(info, sANN) THEN None
    ELSE LET ann_start == find(info, sANN)
             after == SliceFrom(info, ann_start + 4)
             ann_content == IF contains(after, sSemi) THEN split(after, sSemi)[1] ELSE after
             annotations == split(ann_content, sComma)
             first_ann == annotations[1]
             ann_fields == split(first_ann, sPipe)
         IN  IF Len(ann_fields) >= 4
             THEN Some([allele |-> ann_fields[1], type |-> ann_fields[2],
                        impact |-> ann_fields[3], gene_id |-> ann_fields[4]])
             ELSE None

ExtractFirstAnn ==
    /\ pc = "ann"
    /\ ann_result' = extract_first_ann(info_field)
    /\ pc' = "done"
    /\ UNCHANGED <<error, info_field, expandVars, freqVars, addVars, readVars, filterVars>>

\* The attribute-bag strings: an optional leading attribute, no marker or the
\* marker (bare or as the tail of a longer key), annotation entries of 1 to
\* MaxFields pipe-separated sub-fields, one of which may be empty, and an
\* optional trailing attribute.
MaxFields == 5      \* sub-fields of the first annotation entry
MaxEntries == 2     \* comma-separated annotation entries

Impacts == <<<<"M", "O", "D">>, <<"L", "O", "W">>, <<"H", "I">>>>
Effects == <<<<"m", "i", "s">>, <<"s", "y", "n">>, <<"s", "t", "p">>>>

\* sub-field j of entry e; blank names the sub-field left empty (0: none)
SubField(e, j, blank) ==
    IF j = blank THEN <<>>
    ELSE IF j = 1 THEN Allele(e)
    ELSE IF j = 2 THEN Effects[((e - 1) % 3) + 1]
    ELSE IF j = 3 THEN Impacts[((e - 1) % 3) + 1]
    ELSE IF j = 4 THEN <<"g">> \o str(e)
    ELSE <<"x">> \o str(j)

AnnEntry(e, nf, blank) == join([j \in 1..nf |-> SubField(e, j, blank)], sPipe)

\* entry 1 has nf sub-fields, the later entries have four
AnnValue(ne, nf, blank) ==
    join([e \in 1..ne |-> IF e = 1 THEN AnnEntry(1, nf, blank) ELSE AnnEntry(e, 4, 0)], sComma)

Leads == {<<>>, <<"D", "P", "=", "5", "0", ";">>}
Trails == {<<>>, <<";", "N", "S", "=", "2">>}
Keys == {sANN, <<"X">> \o sANN}

InfoStrings ==
    {lead \o <<"A", "N", "=", "2">> \o trail : lead \in Leads, trail \in Trails}
    \cup {lead \o key \o AnnValue(ne, nf, blank) \o trail :
             lead \in Leads, trail \in Trails, key \in Keys,
             ne \in 1..MaxEntries, nf \in 1..MaxFields, blank \in 0..2}

InitAnn ==
    /\ pc = "ann"
    /\ error = NoError
    /\ IdleExpand /\ IdleFreq /\ IdleAdd /\ IdleRead /\ IdleFilter
    /\ info_field \in InfoStrings
    /\ ann_result = None

NextAnn == ExtractFirstAnn

SpecAnn == InitAnn /\ [][NextAnn]_vars

-----------------------------------------------------------------------------
(* add_ann_info_to_df.  The table is [index, columns, rows]: index holds   *)
(* the row labels, which pandas lets repeat; a row is the dict of its      *)
(* cells; a cell of an annotation column is None or a boxed string.        *)

\* df[col] = None
SetColumnNone(tbl, col) ==
    [index |-> tbl.index,
     columns |-> IF InList(tbl.columns, col) THEN tbl.columns ELSE Append(tbl.columns, col),
     rows |-> [r \in 1..Len(tbl.rows) |-> DictSet(tbl.rows[r], col, None)]]

\* df.loc[idx, col] = value: every row labelled idx is written
LocSet(tbl, idx, col, value) ==
    [index |-> tbl.index,
     columns |-> tbl.columns,
     rows |-> [r \in 1..Len(tbl.rows) |->
                  IF tbl.index[r] = idx THEN DictSet(tbl.rows[r], col, value) ELSE tbl.rows[r]]]

AddAnnStart ==
    /\ pc = "add_ann"
    /\ df' = Some(SetColumnNone(SetColumnNone(SetColumnNone(SetColumnNone(
                      Unbox(df), "variant_type"), "impact"), "gene_id"), "allele"))
    /\ pc' = "add_ann_loop"
    /\ UNCHANGED <<error, df_in, ann_i, expandVars, freqVars, annVars, readVars, filterVars>>

AddAnnRow ==
    /\ pc = "add_ann_loop"
    /\ ann_i < Len(Unbox(df).rows)
    /\ LET at == ann_i + 1
           idx == Unbox(df).index[at]
           info == DictGet(Unbox(df).rows[at], "INFO")
           ann_data == extract_first_ann(info)
       IN  IF ann_data # None
           THEN df' = Some(LocSet(LocSet(LocSet(LocSet(Unbox(df),
                               idx, "variant_type", Some(Unbox(ann_data).type)),
                               idx, "impact", Some(Unbox(ann_data).impact)),
                               idx, "gene_id", Some(Unbox(ann_data).gene_id)),
                               idx, "allele", Some(Unbox(ann_data).allele)))
           ELSE UNCHANGED df
    /\ ann_i' = ann_i + 1
    /\ UNCHANGED <<pc, error, df_in, expandVars, freqVars, annVars, readVars, filterVars>>

AddAnnReturn ==
    /\ pc = "add_ann_loop"
    /\ ann_i = Len(Unbox(df).rows)
    /\ pc' = "done"
    /\ UNCHANGED <<error, addVars, expandVars, freqVars, annVars, readVars, filterVars>>

\* The input tables: rows labelled from a pool that allows repeated and
\* non-consecutive labels, with INFO strings with and without an annotation,
\* and no further column, a QUAL column, or a column already named impact.
Labels == {0, 1, 7}

ExtraColumns == {<<>>, <<"QUAL">>, <<"impact">>}

ExtraCell(col) == IF col = "impact" THEN Some(Impacts[3]) ELSE Some(<<"3", "0">>)

InfoPool ==
    {<<"D", "P", "=", "5", "0">>,
     sANN \o AnnValue(1, 4, 0),
     <<"D", "P", "=", "5", "0", ";">> \o sANN \o AnnEntry(2, 5, 0) \o <<",">> \o AnnEntry(3, 4, 0),
     sANN \o AnnEntry(1, 2, 0)}

AnnTables ==
    {[index |-> [r \in 1..Len(rs) |-> rs[r].label],
      columns |-> <<"POS", "INFO">> \o extra,
      rows |-> [r \in 1..Len(rs) |->
                   <<[k |-> "POS", v |-> r], [k |-> "INFO", v |-> rs[r].info]>>
                   \o [j \in 1..Len(extra) |-> [k |-> extra[j], v |-> ExtraCell(extra[j])]]]] :
        rs \in SeqsUpTo([label : Labels, info : InfoPool], MaxRows),
        extra \in ExtraColumns}

InitAdd ==
    /\ pc = "add_ann"
    /\ error = NoError
    /\ IdleExpand /\ IdleFreq /\ IdleAnn /\ IdleRead /\ IdleFilter
    /\ df \in {Some(t) : t \in AnnTables}
    /\ df_in = df
    /\ ann_i = 0

NextAdd == AddAnnStart \/ AddAnnRow \/ AddAnnReturn

SpecAdd == InitAdd /\ [][NextAdd]_vars

-----------------------------------------------------------------------------
(* read_vcf.  The file is the sequence of its lines, each ending in a      *)
(* newline.                                                                *)

sHeaderMark == <<"#", "C", "H", "R", "O", "M">>
sTab == <<"\t">>
Whitespace == {" ", "\t", "\n", "\r"}

\* str.strip()
RECURSIVE strip(_)
strip(s) ==
    IF Len(s) = 0 THEN s
    ELSE IF s[1] \in Whitespace THEN strip(Tail(s))
    ELSE IF s[Len(s)] \in Whitespace THEN strip(SubSeq(s, 1, Len(s) - 1))
    ELSE s

UnboundLocalError == "UnboundLocalError: local variable 'header' referenced before assignment"

\* pd.read_csv(sep='\t', comment='#', header=None, names=names) reads the lines
\* that are neither comments nor blank, wherever they stand in the file, and
\* puts their tab-separated fields under names in order, NaN for a missing
\* trailing field
RECURSIVE DataLines(_)
DataLines(lines) ==
    IF Len(lines) = 0 THEN <<>>
    ELSE IF startswith(lines[1], <<"#">>) \/ strip(lines[1]) = <<>>
         THEN DataLines(Tail(lines))
         ELSE <<split(SubSeq(lines[1], 1, Len(lines[1]) - 1), sTab)>> \o DataLines(Tail(lines))

\* a column whose every field is a decimal numeral is read as integers
read_csv(lines, names) ==
    LET data == DataLines(lines)
        field(r, j) == IF j <= Len(data[r]) THEN data[r][j] ELSE <<"N", "a", "N">>
        numeric(j) == \A r \in 1..Len(data) : IsNumeral(field(r, j))
    IN  [columns |-> names,
         rows |-> [r \in 1..Len(data) |->
                      [j \in 1..Len(names) |->
                          [k |-> names[j],
                           v |-> IF numeric(j) THEN int(field(r, j)) ELSE field(r, j)]]]]

\* one iteration of `for line in f`, or its end at end-of-input
ReadScan ==
    /\ pc = "read_scan"
    /\ UNCHANGED <<error, vcf_file, read_df, expandVars, freqVars, annVars, addVars, filterVars>>
    /\ IF line_i = Len(vcf_file)
       THEN pc' = "read_csv" /\ UNCHANGED <<line_i, header>>
       ELSE /\ line_i' = line_i + 1
            /\ IF startswith(vcf_file[line_i + 1], sHeaderMark)
               THEN /\ header' = Some(split(strip(vcf_file[line_i + 1]), sTab))
                    /\ pc' = "read_csv"
               ELSE UNCHANGED <<pc, header>>

ReadCsv ==
    /\ pc = "read_csv"
    /\ UNCHANGED <<vcf_file, line_i, header, expandVars, freqVars, annVars, addVars, filterVars>>
    /\ IF header = None
       THEN /\ Raise(UnboundLocalError)
            /\ UNCHANGED read_df
       ELSE /\ read_df' = Some(read_csv(vcf_file, Unbox(header)))
            /\ pc' = "done"
            /\ UNCHANGED error

\* The input files: up to MaxLines lines among a meta line, two header lines
\* and two data lines.
MaxLines == 3

LinePool ==
    {<<"#", "#", "v", "\n">>,
     sHeaderMark \o <<"\t", "P", "O", "S", "\n">>,
     sHeaderMark \o <<"\t", "R", "E", "F", "\n">>,
     <<"c", "1", "\t", "5", "\n">>,
     <<"c", "2", "\t", "8", "\n">>}

VcfFiles == SeqsUpTo(LinePool, MaxLines)

InitRead ==
    /\ pc = "read_scan"
    /\ error = NoError
    /\ IdleExpand /\ IdleFreq /\ IdleAnn /\ IdleAdd /\ IdleFilter
    /\ vcf_file \in VcfFiles
    /\ line_i = 0
    /\ header = None
    /\ read_df = None

NextRead == ReadScan \/ ReadCsv

SpecRead == InitRead /\ [][NextRead]_vars

-----------------------------------------------------------------------------
(* count_variants and filter_variants.  A file is the number of variant     *)
(* lines it holds; a path is the sequence of the dot-separated parts of its *)
(* name.                                                                   *)

INPUT_VCF == <<"../data/freebayes", "annotated_pc1", "vcf", "gz">>
QUAL_FILTERED_VCF == <<"../data/filtered_qual", "vcf">>
DP_FILTERED_VCF == <<"../data/filtered_dp", "vcf">>
SNP_FILTERED_VCF == <<"../data/filtered_snp", "vcf">>
FINAL_VCF == <<"../data/filtered_final", "vcf">>

Paths == {INPUT_VCF, QUAL_FILTERED_VCF, DP_FILTERED_VCF, SNP_FILTERED_VCF, FINAL_VCF}

\* the place of the output file in the record of a command that writes none
NoPath == <<>>

\* vcf_file.endswith('.gz')
endswith_gz(path) == path[Len(path)] = "gz"

\* the command line count_variants builds for a file
count_cmd(path) ==
    IF endswith_gz(path) THEN "bcftools view -H | wc -l" ELSE "grep -v '^#' | wc -l"

qual_cmd == "bcftools filter -e 'QUAL < 30'"
dp_cmd == "bcftools view -i 'FMT/DP >= 30 & FMT/DP <= 150'"
type_cmd == "bcftools view -v snps,indels"

\* the variant lines that reach wc: none when the file does not exist
LinesOf(fs, path) == IF fs[path] = None THEN 0 ELSE Unbox(fs[path])

\* wc -l ends the pipe: it prints the number of lines, padded or not, and a
\* newline, whatever became of the command before it
wc_stdout(n) == {str(n) \o <<"\n">>, <<" ", " ">> \o str(n) \o <<"\n">>}

ValueError == "ValueError: invalid literal for int()"
CalledProcessError == "CalledProcessError"
FileNotFoundError == "FileNotFoundError"

\* subprocess.run(cmd, shell=True) with check=True: a non-zero exit status raises
raises_on_exit_check(returncode) == returncode # 0

\* subprocess.run(cmd, shell=True): check is left False, no exit status raises
raises_on_exit(returncode) == FALSE

\* What a bcftools run that reads src and writes dst can leave: exit status 0
\* with some of the variants of src, which must exist; or a non-zero status
\* with dst as it was, emptied, or holding a part of what src would give.
FilterOutcomes(fs, src, dst) ==
    LET kept == IF fs[src] = None THEN {} ELSE 0..Unbox(fs[src])
        part == IF fs[src] = None THEN {} ELSE 0..(Unbox(fs[src]) - 1)
    IN  {[returncode |-> 0, out |-> Some(k)] : k \in kept}
        \cup {[returncode |-> 1, out |-> o] : o \in {fs[dst], Some(0)} \cup {Some(k) : k \in part}}

\* NAME = count_variants(path)
CountVariants(here, path, name, next) ==
    /\ pc = here
    /\ UNCHANGED <<files, expandVars, freqVars, annVars, addVars, readVars>>
    /\ calls' = Append(calls, [cmd |-> count_cmd(path), src |-> path, dst |-> NoPath,
                               returncode |-> 0])
    /\ \E stdout \in wc_stdout(LinesOf(files, path)) :
         IF IsNumeral(strip(stdout))
         THEN /\ count_vars' = [count_vars EXCEPT ![name] = Some(int(strip(stdout)))]
              /\ pc' = next
              /\ UNCHANGED error
         ELSE /\ Raise(ValueError)
              /\ UNCHANGED count_vars

\* subprocess.run(f"{cmd} {src} -o {dst}", shell=True), the result dropped
RunFilter(here, cmd, src, dst, next) ==
    /\ pc = here
    /\ UNCHANGED <<count_vars, expandVars, freqVars, annVars, addVars, readVars>>
    /\ \E res \in FilterOutcomes(files, src, dst) :
         /\ calls' = Append(calls, [cmd |-> cmd, src |-> src, dst |-> dst,
                                    returncode |-> res.returncode])
         /\ files' = [files EXCEPT ![dst] = res.out]
         /\ IF raises_on_exit(res.returncode)
            THEN Raise(CalledProcessError)
            ELSE pc' = next /\ UNCHANGED error

FilterCountInput == CountVariants("filter_variants", INPUT_VCF, "START_COUNT", "qual")

FilterQual == RunFilter("qual", qual_cmd, INPUT_VCF, QUAL_FILTERED_VCF, "count_qual")

FilterCountQual == CountVariants("count_qual", QUAL_FILTERED_VCF, "QUAL_FILTERED_COUNT", "dp")

FilterDp == RunFilter("dp", dp_cmd, QUAL_FILTERED_VCF, DP_FILTERED_VCF, "count_dp")

FilterCountDp == CountVariants("count_dp", DP_FILTERED_VCF, "DP_FILTERED_COUNT", "snp")

FilterType == RunFilter("snp", type_cmd, DP_FILTERED_VCF, SNP_FILTERED_VCF, "count_snp")

FilterCountType == CountVariants("count_snp", SNP_FILTERED_VCF, "SNP_FILTERED_COUNT", "rename")

\* os.rename(SNP_FILTERED_VCF, FINAL_VCF)
FilterRename ==
    /\ pc = "rename"
    /\ UNCHANGED <<calls, count_vars, expandVars, freqVars, annVars, addVars, readVars>>
    /\ IF files[SNP_FILTERED_VCF] = None
       THEN /\ Raise(FileNotFoundError)
            /\ UNCHANGED files
       ELSE /\ files' = [files EXCEPT ![FINAL_VCF] = files[SNP_FILTERED_VCF],
                                      ![SNP_FILTERED_VCF] = None]
            /\ pc' = "count_final"
            /\ UNCHANGED error

FilterCountFinal == CountVariants("count_final", FINAL_VCF, "FINAL_COUNT", "done")

\* The data directory: an input file of up to MaxVariants variants, or none,
\* and either no output file or the files an earlier complete run left.
MaxVariants == 2

CountNames ==
    {"START_COUNT", "QUAL_FILTERED_COUNT", "DP_FILTERED_COUNT", "SNP_FILTERED_COUNT",
     "FINAL_COUNT"}

DataDirs ==
    {[path \in Paths |->
         IF path = INPUT_VCF THEN input
         ELSE IF path = SNP_FILTERED_VCF THEN None
         ELSE left] :
        input \in {None} \cup {Some(n) : n \in 0..MaxVariants},
        left \in {None, Some(1)}}

InitFilter ==
    /\ pc = "filter_variants"
    /\ error = NoError
    /\ IdleExpand /\ IdleFreq /\ IdleAnn /\ IdleAdd /\ IdleRead
    /\ files \in DataDirs
    /\ calls = <<>>
    /\ count_vars = [name \in CountNames |-> None]

NextFilter ==
    \/ FilterCountInput
    \/ FilterQual
    \/ FilterCountQual
    \/ FilterDp
    \/ FilterCountDp
    \/ FilterType
    \/ FilterCountType
    \/ FilterRename
    \/ FilterCountFinal

\* one thread runs the statements in turn, and each command it waits for ends
SpecFilter == InitFilter /\ [][NextFilter]_vars /\ WF_vars(NextFilter)

-----------------------------------------------------------------------------
(* What the claims say about the expander, stated on the input text.       *)

Returned == pc = "done"
Ended == pc \in {"done", "raised"}

AltsOf(row) == split(row.ALT, sComma)
TypesOf(row) == split(split(split(row.INFO, sTYPE)[2], sSemi)[1], sComma)
LayoutOf(row) == split(row.FORMAT, sColon)

\* the colon-separated element of sample k that the row's own FORMAT names field
OwnField(row, k, field) ==
    split(row.samples[k], sColon)[ListIndex(LayoutOf(row), field) + 1]

\* a count token read as the spec reads it: the missing token is 0
TokenCount(tok) == IF tok = sDot THEN 0 ELSE int(tok)

OwnAO(row, k, i) ==
    LET l == split(OwnField(row, k, sAO), sComma)
    IN  IF i < Len(l) THEN TokenCount(l[i + 1]) ELSE 0

Aligned(tbl) == \A r \in 1..Len(tbl.rows) : Len(AltsOf(tbl.rows[r])) = Len(TypesOf(tbl.rows[r]))

HasCounts(row) == InList(LayoutOf(row), sRO) /\ InList(LayoutOf(row), sAO) /\ InList(LayoutOf(row), sDP)

RECURSIVE SumAlts(_, _)
SumAlts(tbl, r) == IF r = 0 THEN 0 ELSE SumAlts(tbl, r - 1) + Len(AltsOf(tbl.rows[r]))

\* the (input row, alternate index) pairs in input-row order, then alternate order
RECURSIVE Fan(_, _)
Fan(tbl, r) ==
    IF r = 0 THEN <<>>
    ELSE Fan(tbl, r - 1) \o [i \in 1..Len(AltsOf(tbl.rows[r])) |-> <<r, i - 1>>]

OutRows == Unbox(expanded_df).rows

\* the input row an output row was fanned out from (POS is the row number), and
\* its rank among the output rows of that input row
SrcOf(out, k) == DictGet(out[k], sPOS)
RankOf(out, k) == Cardinality({j \in 1..(k - 1) : SrcOf(out, j) = SrcOf(out, k)})

MixedFormats(tbl) == \E a, b \in 1..Len(tbl.rows) : tbl.rows[a].FORMAT # tbl.rows[b].FORMAT

\* C1: for every valid input table (any number of rows, zero included) the call
\* returns a table whose row count is the sum of the rows' alternate counts.
C1_RowCountConservation ==
    (Ended /\ Aligned(df_vcf))
        => (Returned /\ Len(OutRows) = SumAlts(df_vcf, Len(df_vcf.rows)))

\* C2: with alternates and types aligned, the returned rows are the fan-out in
\* input-row order then alternate order; the row of alternate i carries the
\* input row's chromosome, position and reference, the i-th alternate, the i-th
\* type and, per sample, the i-th element of that sample's AO sub-field; RO and
\* DP of a sample agree over the rows fanned out from one input row.
C2_FanOut ==
    (Returned /\ Aligned(df_vcf)) =>
        LET out == OutRows
            fan == Fan(df_vcf, Len(df_vcf.rows))
            names == SampleNamesOf(df_vcf)
        IN  /\ Len(out) = Len(fan)
            /\ \A k \in 1..Len(out) :
                 LET row == df_vcf.rows[fan[k][1]]
                     i == fan[k][2]
                 IN  /\ DictGet(out[k], sCHROM) = row.CHROM
                     /\ DictGet(out[k], sPOS) = row.POS
                     /\ DictGet(out[k], sREF) = row.REF
                     /\ DictGet(out[k], sALT) = AltsOf(row)[i + 1]
                     /\ DictGet(out[k], sINFO_TYPE) = TypesOf(row)[i + 1]
                     /\ \A s \in 1..Len(names) :
                          /\ DictGet(out[k], sAO_ \o names[s]) = OwnAO(row, s, i)
                          /\ \A j \in 1..Len(out) :
                               fan[j][1] = fan[k][1] =>
                                 /\ DictGet(out[j], sRO_ \o names[s]) = DictGet(out[k], sRO_ \o names[s])
                                 /\ DictGet(out[j], sDP_ \o names[s]) = DictGet(out[k], sDP_ \o names[s])

\* a sample value of the table holds the missing token in a count position
HasMissingToken(tbl) ==
    \E r \in 1..Len(tbl.rows), k \in 1..Len(SampleNamesOf(tbl)) :
        \/ OwnField(tbl.rows[r], k, sRO) = sDot
        \/ OwnField(tbl.rows[r], k, sDP) = sDot
        \/ InList(split(OwnField(tbl.rows[r], k, sAO), sComma), sDot)

\* C3: every RO, AO and DP of the returned table is a non-negative integer; a
\* missing-token input raises nothing and gives 0: '.' in the sample's RO
\* position, in its DP position or in its AO element of the row's alternate,
\* and an AO list with no element at the alternate's index.
C3_Normalization ==
    /\ (pc = "raised" => ~HasMissingToken(df_vcf))
    /\ Returned =>
         LET out == OutRows
             names == SampleNamesOf(df_vcf)
         IN  \A k \in 1..Len(out), s \in 1..Len(names) :
               LET row == df_vcf.rows[SrcOf(out, k)]
                   i == RankOf(out, k)
                   ao == split(OwnField(row, s, sAO), sComma)
               IN  /\ DictGet(out[k], sRO_ \o names[s]) \in Nat
                   /\ DictGet(out[k], sAO_ \o names[s]) \in Nat
                   /\ DictGet(out[k], sDP_ \o names[s]) \in Nat
                   /\ OwnField(row, s, sRO) = sDot => DictGet(out[k], sRO_ \o names[s]) = 0
                   /\ OwnField(row, s, sDP) = sDot => DictGet(out[k], sDP_ \o names[s]) = 0
                   /\ (i >= Len(ao) \/ ao[i + 1] = sDot) => DictGet(out[k], sAO_ \o names[s]) = 0

\* C5: the positions of RO, AO and DP are those of each row's own FORMAT: in a
\* table of rows with different FORMAT orders the call returns, and every
\* returned RO, AO and DP is the one the row's own FORMAT declares.
C5_PerRowFormat ==
    (Ended /\ MixedFormats(df_vcf)) =>
        /\ Returned
        /\ LET out == OutRows
               names == SampleNamesOf(df_vcf)
           IN  \A k \in 1..Len(out), s \in 1..Len(names) :
                 LET row == df_vcf.rows[SrcOf(out, k)]
                 IN  /\ DictGet(out[k], sRO_ \o names[s]) = TokenCount(OwnField(row, s, sRO))
                     /\ DictGet(out[k], sDP_ \o names[s]) = TokenCount(OwnField(row, s, sDP))
                     /\ DictGet(out[k], sAO_ \o names[s]) = OwnAO(row, s, RankOf(out, k))

\* C6: a row whose alternate count differs from its TYPE count is not silently
\* truncated: no table is returned in which the surplus has been dropped.
C6_MismatchNotIgnored ==
    Returned =>
        \A r \in 1..Len(df_vcf.rows) :
            LET row == df_vcf.rows[r]
                emitted == Cardinality({k \in 1..Len(OutRows) : SrcOf(OutRows, k) = r})
            IN  Len(AltsOf(row)) # Len(TypesOf(row)) =>
                    emitted # Min(Len(AltsOf(row)), Len(TypesOf(row)))

\* C7: when the table's FORMAT (one string in every row) lacks RO, AO or DP, the
\* call ends in the descriptive data-format error and in nothing else: no row
\* is processed and no table, partial or whole, is returned.
C7_MissingFieldFatal ==
    (Len(df_vcf.rows) > 0 /\ ~MixedFormats(df_vcf) /\ ~HasCounts(df_vcf.rows[1])) =>
        /\ pc \in {"expand", "raised"}
        /\ pc = "raised" => error = FormatError
        /\ pc = "expand" => error = NoError
        /\ row_i = 0
        /\ expanded_rows = <<>>
        /\ expanded_df = None

\* a two-row table without DP, RO at position 0, has ended in the format error
C7_Witness ==
    /\ pc = "raised"
    /\ error = FormatError
    /\ Len(df_vcf.rows) = 2
    /\ LayoutOf(df_vcf.rows[1]) = <<sRO, sAO>>
    /\ LayoutOf(df_vcf.rows[2]) = <<sRO, sAO>>

-----------------------------------------------------------------------------
(* What the claims say about the frequency table.                          *)

\* the samples of an expanded table: the names after the prefix of its DP columns
SamplesIn(tbl) ==
    {SliceFrom(c, 3) : c \in {x \in {tbl.columns[j] : j \in 1..Len(tbl.columns)} :
                                 startswith(x, sDP_)}}

\* C4: for every expanded table and every sample S in it, whatever its name,
\* the call returns the same rows in the same order with exactly one column
\* AF_S, whose value in a row is AO_S / DP_S of that row: non-finite exactly
\* when DP_S is 0, and nothing is raised.
C4_Frequencies ==
    (pc \in {"done", "raised"} /\ df_counts # None) =>
        /\ pc = "done"
        /\ LET counts == Unbox(df_counts)
               af == Unbox(df_af)
           IN  /\ Len(af.rows) = Len(counts.rows)
               /\ \A r \in 1..Len(counts.rows), j \in 1..Len(IdColumns) :
                    DictGet(af.rows[r], IdColumns[j]) = DictGet(counts.rows[r], IdColumns[j])
               /\ \A S \in SamplesIn(counts) :
                    /\ Cardinality({j \in 1..Len(af.columns) : af.columns[j] = sAF_ \o S}) = 1
                    /\ \A r \in 1..Len(counts.rows) :
                         LET ao == DictGet(counts.rows[r], sAO_ \o S)
                             dp == DictGet(counts.rows[r], sDP_ \o S)
                             f == DictGet(af.rows[r], sAF_ \o S)
                         IN  /\ (f.kind # "finite") <=> (dp = 0)
                             /\ dp # 0 => f.n * dp = ao * f.d

-----------------------------------------------------------------------------
(* What the claims say about the annotation extractor, stated on the       *)
(* characters of the attribute bag.                                        *)

\* the offsets of the character c in s, and the text of s before the first one
PositionsOf(s, c) == {k \in 1..Len(s) : s[k] = c}

Before(s, c) ==
    IF PositionsOf(s, c) = {} THEN s
    ELSE SubSeq(s, 1, (CHOOSE k \in PositionsOf(s, c) : \A j \in PositionsOf(s, c) : k <= j) - 1)

\* the text after the first marker, up to the next semicolon or the end
AnnText(info) ==
    LET p == CHOOSE q \in 0..Len(info) :
                 OccursAt(info, sANN, q) /\ \A o \in 0..(q - 1) : ~OccursAt(info, sANN, o)
    IN  Before(SubSeq(info, p + 5, Len(info)), ";")

FirstEntry(info) == Before(AnnText(info), ",")

\* sub-field j (from 0) of the entry: the text between its j-th and (j+1)-th pipe
SubFieldOf(entry, j) ==
    LET pipes == PositionsOf(entry, "|")
        before(k) == Cardinality({q \in pipes : q < k}) \* pipes before offset k
    IN  [m \in 1..Cardinality({k \in 1..Len(entry) : before(k) = j /\ entry[k] # "|"}) |->
            entry[(CHOOSE f \in 0..Len(entry) :
                      /\ (j = 0 => f = 0)
                      /\ (j > 0 => f \in pipes /\ before(f) = j - 1)) + m]]

HasMarker(info) == \E q \in 0..Len(info) : OccursAt(info, sANN, q)

\* C9: absent without the marker 'ANN=' and when the first entry has fewer than
\* 4 pipe-separated sub-fields; otherwise exactly the record of sub-fields 0..3
\* of the first comma-separated entry of the text between the marker and the
\* next semicolon (or the end), whatever follows them.
C9_FirstAnnotation ==
    pc = "done" =>
        IF ~HasMarker(info_field) THEN ann_result = None
        ELSE LET entry == FirstEntry(info_field)
             IN  IF Cardinality(PositionsOf(entry, "|")) + 1 < 4 THEN ann_result = None
                 ELSE ann_result = Some([allele |-> SubFieldOf(entry, 0),
                                         type |-> SubFieldOf(entry, 1),
                                         impact |-> SubFieldOf(entry, 2),
                                         gene_id |-> SubFieldOf(entry, 3)])

\* a record was extracted from a bag with a leading and a trailing attribute,
\* two entries and a first entry of exactly four sub-fields
C9_Witness ==
    /\ pc = "done"
    /\ ann_result # None
    /\ startswith(info_field, <<"D", "P">>)
    /\ Cardinality(PositionsOf(info_field, ";")) = 2
    /\ Cardinality(PositionsOf(info_field, ",")) = 1
    /\ Cardinality(PositionsOf(FirstEntry(info_field), "|")) = 3
    /\ Unbox(ann_result).gene_id = <<"g", "1">>

\* C10: after the call, whatever the row labels, every row holds in allele,
\* variant_type, impact and gene_id the values extract_first_ann yields for
\* its own INFO string, and the absent marker in all four when it yields none.
C10_OwnAnnotation ==
    (pc = "done" /\ df # None) =>
        \A r \in 1..Len(Unbox(df).rows) :
            LET row == Unbox(df).rows[r]
                ann == extract_first_ann(DictGet(row, "INFO"))
            IN  IF ann = None
                THEN /\ DictGet(row, "allele") = None
                     /\ DictGet(row, "variant_type") = None
                     /\ DictGet(row, "impact") = None
                     /\ DictGet(row, "gene_id") = None
                ELSE /\ DictGet(row, "allele") = Some(Unbox(ann).allele)
                     /\ DictGet(row, "variant_type") = Some(Unbox(ann).type)
                     /\ DictGet(row, "impact") = Some(Unbox(ann).impact)
                     /\ DictGet(row, "gene_id") = Some(Unbox(ann).gene_id)

-----------------------------------------------------------------------------
(* What the claims say about the loader.                                   *)

HeaderLines(lines) == {k \in 1..Len(lines) : startswith(lines[k], sHeaderMark)}

\* the data-format error the loader is to raise for a file without a header
HeaderError == "ValueError: no #CHROM header line"

\* C8: the column names are the tab-separated tokens of the first line that
\* begins with '#CHROM'; at end-of-input without such a line the call raises a
\* data-format error and returns no table.
C8_HeaderOrError ==
    pc \in {"done", "raised"} =>
        IF HeaderLines(vcf_file) = {}
        THEN pc = "raised" /\ error \in {HeaderError, FormatError} /\ read_df = None
        ELSE LET first == CHOOSE k \in HeaderLines(vcf_file) : \A j \in HeaderLines(vcf_file) : k <= j
             IN  /\ pc = "done"
                 /\ Unbox(read_df).columns =
                        split(SubSeq(vcf_file[first], 1, Len(vcf_file[first]) - 1), sTab)

-----------------------------------------------------------------------------
(* What the claims say about the frame of add_ann_info_to_df.              *)

\* the rows, their order and their labels are those of the table passed
SameRows == Unbox(df).index = Unbox(df_in).index /\ Len(Unbox(df).rows) = Len(Unbox(df_in).rows)

\* the column col of the table passed holds, in every row, the value passed
ColumnKept(col) ==
    /\ InList(Unbox(df).columns, col)
    /\ \A r \in 1..Len(Unbox(df_in).rows) :
         DictGet(Unbox(df).rows[r], col) = DictGet(Unbox(df_in).rows[r], col)

ColumnsBefore == {Unbox(df_in).columns[j] : j \in 1..Len(Unbox(df_in).columns)}

\* C11: after the call the table has the rows, order and labels it
\* had, and every column that existed before the call is unchanged in every row.
C11_OnlyAddsColumns ==
    (pc = "done" /\ df # None) =>
        /\ SameRows
        /\ \A col \in ColumnsBefore : ColumnKept(col)

-----------------------------------------------------------------------------
(* What the claims say about the commands filter_variants starts.          *)

\* the command, the file it reads and the file it writes
CmdOf(call) == [cmd |-> call.cmd, src |-> call.src, dst |-> call.dst]

CountOf(path) == [cmd |-> count_cmd(path), src |-> path, dst |-> NoPath]

\* count the input, quality filter the input, count, depth filter the
\* quality-filtered file, count, variant-type filter the depth-filtered file,
\* count
ClaimedOrder ==
    <<CountOf(INPUT_VCF),
      [cmd |-> qual_cmd, src |-> INPUT_VCF, dst |-> QUAL_FILTERED_VCF],
      CountOf(QUAL_FILTERED_VCF),
      [cmd |-> dp_cmd, src |-> QUAL_FILTERED_VCF, dst |-> DP_FILTERED_VCF],
      CountOf(DP_FILTERED_VCF),
      [cmd |-> type_cmd, src |-> DP_FILTERED_VCF, dst |-> SNP_FILTERED_VCF],
      CountOf(SNP_FILTERED_VCF)>>

FilterSlots == {k \in 1..Len(ClaimedOrder) : ClaimedOrder[k].dst # NoPath}

\* the commands started so far are the first ones of the claimed order, one
\* after the other, and none of them was started twice
OrderKept ==
    /\ \A k \in 1..Len(calls) : k <= Len(ClaimedOrder) => CmdOf(calls[k]) = ClaimedOrder[k]
    /\ \A j, k \in 1..Len(calls) : CmdOf(calls[j]) = CmdOf(calls[k]) => j = k

\* the filter in slot k of the order has exited with a non-zero status
FailedAt(k) == Len(calls) >= k /\ calls[k].returncode # 0

\* the count after slot k, and the filter after it if there is one, were started
FollowedAt(k) ==
    /\ Len(calls) >= k + 1
    /\ k + 2 <= Len(ClaimedOrder) => Len(calls) >= k + 2

\* C12: the commands are started in the claimed order, each filter reading the
\* file the filter before it wrote, none started twice; and once a filter has
\* exited non-zero, the count that follows it and the filter that follows that
\* are started all the same.
C12_FixedOrderExitIgnored ==
    /\ []OrderKept
    /\ \A k \in FilterSlots : FailedAt(k) ~> (OrderKept /\ FollowedAt(k))

\* the quality filter and the depth filter exited non-zero and all seven
\* commands of the order were started
C12_Witness ==
    /\ Len(calls) >= Len(ClaimedOrder)
    /\ calls[2].returncode # 0
    /\ calls[4].returncode # 0
    /\ calls[3].src = QUAL_FILTERED_VCF
    /\ calls[6].src = DP_FILTERED_VCF

====
